---- MODULE Spec2Model ----
(***************************************************************************)
(* Model of edge/msghub/sdr2msghub/main.go: the model loader (newModel,    *)
(* opIsSafe), the start-up sequence of main, and the sampling loop of main *)
(* with its per-station goodness map, the discovery refresh and the        *)
(* publish step.                                                           *)
(*                                                                         *)
(* Scores, scoring values and random draws are float32 in the program.     *)
(* They are modelled as exact rationals [num, den] in lowest terms, so the *)
(* arithmetic of line 251 is the arithmetic of the reals; float32 rounding *)
(* is not modelled.  Time is counted in minutes; `now' is the latest       *)
(* reading of the (monotonic) clock.                                       *)
(***************************************************************************)
EXTENDS Integers, Sequences, FiniteSets, TLC

VARIABLES
    pc,                  \* position of the single thread of main
    panicMsg,            \* value the process panicked with, "" while running
    graph,               \* newModel: the imported graph (local of newModel)
    err,                 \* newModel: the error it returned
    printed,             \* newModel: op types printed by lines 93-95, in order
    sessions,            \* number of tf.NewSession calls made so far
    stationGoodness,     \* main: map station -> goodness
    lastStationsRefresh, \* main: time of the last refresh
    now,                 \* latest clock reading
    stations,            \* main: result of GetCeilingSignals, until the pass starts
    todo,                \* stations the current range loop has still to visit
    station,             \* range variable of line 239
    audio,               \* main: captured clip
    val,                 \* main: value observed for the clip
    msg,                 \* message handed to publishAudio
    sendErr,             \* error returned by the last publishAudio call
    callErr,             \* main: err of the last rtlsdr or goodness call
    updates,             \* number of goodness updates made so far
    discoveredAt,        \* clock reading that followed the last discovery
    drawn                \* the value of rand.Float32() of line 241

vars == <<pc, panicMsg, graph, err, printed, sessions, stationGoodness,
          lastStationsRefresh, now, stations, todo, station, audio, val, msg,
          sendErr, callErr, updates, discoveredAt, drawn>>

---------------------------------------------------------------------------
(* Bounds of the model *)

MaxOps == 3          \* operations in a graph
MaxFound == 2        \* stations returned by one discovery
MaxUpdates == 3      \* goodness updates in a run
MaxTime == 7         \* last clock reading, in minutes
LiveMaxUpdates == 2  \* goodness updates in a run checked for progress

---------------------------------------------------------------------------
(* Rational arithmetic standing for the float32 arithmetic of main *)

\* The parameters of these operators are bound to their values before use
\* (av \in {a}), so that a nested application is evaluated once.

RECURSIVE GCD(_, _)
GCD(a, b) ==
    CHOOSE g \in {IF bv = 0 THEN av ELSE GCD(bv, av % bv) :
                    av \in {a}, bv \in {b}} : TRUE

Norm(n, d) == LET g == GCD(IF n < 0 THEN -n ELSE n, d)
              IN  [num |-> n \div g, den |-> d \div g]

Rat(n, d) == Norm(n, d)

AddFrac(x, y) == LET l == (x.den \div GCD(x.den, y.den)) * y.den
                 IN  Norm(x.num * (l \div x.den) + y.num * (l \div y.den), l)

RAdd(x, y) == CHOOSE r \in {AddFrac(xv, yv) : xv \in {x}, yv \in {y}} : TRUE

MulFrac(x, y) == LET g1 == GCD(IF x.num < 0 THEN -x.num ELSE x.num, y.den)
                     g2 == GCD(IF y.num < 0 THEN -y.num ELSE y.num, x.den)
                 IN  Norm((x.num \div g1) * (y.num \div g2),
                          (x.den \div g2) * (y.den \div g1))

RMul(x, y) == CHOOSE r \in {MulFrac(xv, yv) : xv \in {x}, yv \in {y}} : TRUE

RLess(x, y) == x.num * y.den < y.num * x.den

---------------------------------------------------------------------------
(* Inputs *)

\* station frequencies the receiver can report
Stations == {1, 2}

\* values the classifier returns
Vals == {Rat(0, 1), Rat(1, 2), Rat(11, 20), Rat(7, 10), Rat(9, 10)}

\* values of rand.Float32(), in [0,1)
Draws == {Rat(0, 1), Rat(1, 2), Rat(19, 20)}

Audios == {"clipA", "clipB"}

TimeSteps == {0, 1, 5}

OpTypes == {"Const", "Placeholder", "ReadFile", "PyFunc"}

OpNames == {"output", "input/Placeholder", "conv", "aux"}

Ops == [name : OpNames, type : OpTypes]

SeqsUpTo(S, n) == UNION {[1..k -> S] : k \in 0..n}

\* graphs the import can produce: node names are unique in a graph
Graphs == {g \in SeqsUpTo(Ops, MaxOps) :
             \A i, j \in 1..Len(g) : g[i].name = g[j].name => i = j}

FoundLists == SeqsUpTo(Stations, MaxFound)

NoGraph == <<>>
NoStation == 0
NoAudio == ""
NoVal == Rat(0, 1)
NoMsg == [Audio |-> NoAudio, Freq |-> NoStation, ExpectedValue |-> NoVal]
NoMap == [s \in {} |-> NoVal]

---------------------------------------------------------------------------
(* Model loader *)

safeOPtypes == <<"Const", "Placeholder", "Conv2D", "Cast", "Div",
                 "StatelessRandomNormal", "ExpandDims", "AudioSpectrogram",
                 "DecodeRaw", "Reshape", "MatMul", "Sum", "Softmax",
                 "Squeeze", "RandomUniform", "Identity">>

opIsSafe(a) == \E i \in 1..Len(safeOPtypes) : safeOPtypes[i] = a

\* the keys of the map unsafeOPs after the loop of lines 85-90
unsafeOPs(g) == {g[i].type : i \in {j \in 1..Len(g) : ~opIsSafe(g[j].type)}}

graphIsUnsafe(g) == \E i \in 1..Len(g) : ~opIsSafe(g[i].type)

\* the orders in which ranging over a Go map can print its keys
MapOrders(S) == {p \in [1..Cardinality(S) -> S] :
                   \A i, j \in 1..Cardinality(S) : p[i] = p[j] => i = j}

\* variant: one line per offending operation instead of per type
PrintedUnsafePerOp(g) ==
    {SelectSeq([i \in 1..Len(g) |-> g[i].type], LAMBDA t : ~opIsSafe(t))}

\* what lines 93-95 can print for graph g
PrintedUnsafe(g) == MapOrders(unsafeOPs(g))

\* graph.Operation(name) # nil
HasOperation(g, n) == \E i \in 1..Len(g) : g[i].name = n

ErrUnsafe == "unsafe OPs"
ErrNoOutput == "output OP not found"
ErrNoInput == "input OP not found"
ErrSession == "session"
ErrNone == ""

\* variant: the ports are looked up before the whitelist is checked
newModelErrPortsFirst(g, sessOK) ==
    IF ~HasOperation(g, "output") THEN ErrNoOutput
    ELSE IF ~HasOperation(g, "input/Placeholder") THEN ErrNoInput
    ELSE IF graphIsUnsafe(g) THEN ErrUnsafe
    ELSE IF ~sessOK THEN ErrSession
    ELSE ErrNone

\* the error newModel returns for graph g, when the session can be opened
\* (sessOK) or not
newModelErr(g, sessOK) ==
    IF graphIsUnsafe(g) THEN ErrUnsafe
    ELSE IF ~HasOperation(g, "output") THEN ErrNoOutput
    ELSE IF ~HasOperation(g, "input/Placeholder") THEN ErrNoInput
    ELSE IF ~sessOK THEN ErrSession
    ELSE ErrNone

\* variant: the session is opened before the graph is checked
ReachesSessionAlways(g) == TRUE

\* newModel reaches tf.NewSession (line 112)
ReachesSession(g) ==
    /\ ~graphIsUnsafe(g)
    /\ HasOperation(g, "output")
    /\ HasOperation(g, "input/Placeholder")

---------------------------------------------------------------------------
(* Goodness estimator and the decisions of the loop *)

\* variant: the map's zero value
InitialGoodnessZero == Rat(0, 1)

\* line 228
InitialGoodness == Rat(1, 2)

\* variant: the result is clamped to 1
UpdateClamped(s, v) ==
    LET u == RAdd(RMul(s, RAdd(v, Rat(3, 10))), Rat(1, 20))
    IN  IF RLess(Rat(1, 1), u) THEN Rat(1, 1) ELSE u

\* variant: 0.05 is not added
UpdateNoFloor(s, v) == RMul(s, RAdd(v, Rat(3, 10)))

\* variant: 0.05 is subtracted
UpdateMinus(s, v) == RAdd(RMul(s, RAdd(v, Rat(3, 10))), Rat(-1, 20))

\* line 251
Update(s, v) == RAdd(RMul(s, RAdd(v, Rat(3, 10))), Rat(1, 20))

\* variant: val >= 0.5
WorthSendingAtLeast(v) == ~RLess(v, Rat(1, 2))

\* line 254
WorthSending(v) == RLess(Rat(1, 2), v)

\* variant: <= instead of <
SampledAtMost(r, g) == ~RLess(g, r)

\* variant: the comparison is the wrong way round
SampledReversed(r, g) == RLess(g, r)

\* line 241
Sampled(r, g) == RLess(r, g)

FiveMinutes == 5

\* time.Time{} : the zero time, long before the process started
ZeroTime == -1000000

\* variant: a zero timestamp is taken for "nothing to refresh"
RefreshDueUnlessZero(t, last) == last # ZeroTime /\ t - last > FiveMinutes

\* variant: >= instead of >
RefreshDueAtLeast(t, last) == t - last >= FiveMinutes

\* line 217
RefreshDue(t, last) == t - last > FiveMinutes

\* variant: the map is rebuilt from the discovered list
TrackReplace(m, l) ==
    [x \in {l[i] : i \in 1..Len(l)} |->
       IF x \in DOMAIN m THEN m[x] ELSE Rat(1, 2)]

\* variant: every discovered station is (re)set to 0.5
TrackReset(m, l) ==
    [x \in DOMAIN m \cup {l[i] : i \in 1..Len(l)} |->
       IF x \in {l[i] : i \in 1..Len(l)} THEN Rat(1, 2) ELSE m[x]]

\* lines 223-230, for the list l of discovered stations
RECURSIVE Track(_, _)
Track(m, l) ==
    IF l = <<>> THEN m
    ELSE LET s == Head(l)
             m1 == IF s \in DOMAIN m THEN m
                   ELSE [x \in DOMAIN m \cup {s} |->
                           IF x = s THEN InitialGoodness ELSE m[x]]
         IN  Track(m1, Tail(l))

\* variant: the error is not looked at
FailedIgnored(e) == FALSE

\* lines 220, 243 and 247: err != nil
Failed(e) == e # ErrNone

\* variant: the test can never succeed
NoStationsNever(m) == Cardinality(DOMAIN m) < 0

\* line 232
NoStations(m) == Cardinality(DOMAIN m) < 1

MsgNoStations == "No FM stations. Move the antenna?"
MsgNoEnv == "can't any find set value"
MsgReadFile == "ReadFile"
MsgImport == "Import"
MsgConnect == "connect"
MsgDiscovery == "GetCeilingSignals"
MsgCapture == "GetAudio"
MsgScoring == "goodness"

---------------------------------------------------------------------------
(* State machine *)

Init ==
    /\ pc = "start"
    /\ panicMsg = ""
    /\ graph = NoGraph
    /\ err = ErrNone
    /\ printed = <<>>
    /\ sessions = 0
    /\ stationGoodness = NoMap
    /\ lastStationsRefresh = ZeroTime
    /\ now = 0
    /\ stations = <<>>
    /\ todo = {}
    /\ station = NoStation
    /\ audio = NoAudio
    /\ val = NoVal
    /\ msg = NoMsg
    /\ sendErr = FALSE
    /\ callErr = ErrNone
    /\ updates = 0
    /\ discoveredAt = ZeroTime
    /\ drawn = NoVal

loaderVars == <<graph, err, printed, sessions>>
loopVars == <<stationGoodness, lastStationsRefresh, now, stations, todo,
              station, audio, val, msg, sendErr, callErr, updates,
              discoveredAt, drawn>>

Panic(m) == pc' = "panic" /\ panicMsg' = m

\* main, lines 191-197: the environment is read; a missing value panics
Start ==
    /\ pc = "start"
    /\ \E envSet \in BOOLEAN :
         IF envSet THEN pc' = "import" /\ panicMsg' = panicMsg
         ELSE Panic(MsgNoEnv)
    /\ UNCHANGED <<loaderVars, loopVars>>

\* newModel, lines 73-81: the file is read and imported into a graph
Import ==
    /\ pc = "import"
    /\ \/ /\ \E m \in {MsgReadFile, MsgImport} : Panic(m)
          /\ UNCHANGED graph
       \/ /\ \E g \in Graphs : graph' = g
          /\ pc' = "validate"
          /\ panicMsg' = panicMsg
    /\ UNCHANGED <<err, printed, sessions, loopVars>>

\* newModel, lines 82-114, and main, lines 200-203
Validate ==
    /\ pc = "validate"
    /\ \E sessOK \in BOOLEAN :
         /\ err' = newModelErr(graph, sessOK)
         /\ sessions' = IF ReachesSession(graph) THEN sessions + 1 ELSE sessions
    /\ IF graphIsUnsafe(graph)
         THEN printed' \in PrintedUnsafe(graph)
         ELSE printed' = printed
    /\ IF err' # ErrNone
         THEN Panic(err') /\ graph' = graph
         ELSE pc' = "connect" /\ panicMsg' = panicMsg /\ graph' = NoGraph
    /\ UNCHANGED loopVars

\* main, lines 204-214
Connect ==
    /\ pc = "connect"
    /\ \E ok \in BOOLEAN :
         IF ok THEN pc' = "loop" /\ panicMsg' = panicMsg
         ELSE \E m \in {MsgNoEnv, MsgConnect} : Panic(m)
    /\ UNCHANGED <<loaderVars, loopVars>>

\* main, line 217: the clock is read and compared with the last refresh
LoopHead ==
    /\ pc = "loop"
    /\ \E d \in TimeSteps :
         /\ now + d <= MaxTime
         /\ now' = now + d
    /\ IF RefreshDue(now', lastStationsRefresh)
         THEN pc' = "discover" /\ todo' = todo
         ELSE pc' = "range" /\ todo' = DOMAIN stationGoodness
    /\ UNCHANGED <<panicMsg, loaderVars, stationGoodness, lastStationsRefresh,
                   stations, station, audio, val, msg, sendErr, callErr,
                   updates, discoveredAt, drawn>>

\* main, lines 219-222: the blocking call to rtlsdr.GetCeilingSignals
GetCeilingSignals ==
    /\ pc = "discover"
    /\ \E e \in {ErrNone, MsgDiscovery} :
         /\ callErr' = e
         /\ \E l \in (IF e = ErrNone THEN FoundLists ELSE {<<>>}) :
              stations' = l
         /\ IF Failed(e) THEN Panic(e)
            ELSE pc' = "track" /\ panicMsg' = panicMsg
    /\ UNCHANGED <<loaderVars, stationGoodness, lastStationsRefresh, now, todo,
                   station, audio, val, msg, sendErr, updates, discoveredAt,
                   drawn>>

\* main, lines 223-238: new stations are tracked and the refresh is stamped
TrackStations ==
    /\ pc = "track"
    /\ stationGoodness' = Track(stationGoodness, stations)
    /\ IF NoStations(stationGoodness')
         THEN /\ Panic(MsgNoStations)
              /\ UNCHANGED <<lastStationsRefresh, now, todo, discoveredAt>>
         ELSE /\ \E d \in TimeSteps :
                   /\ now + d <= MaxTime
                   /\ now' = now + d
              /\ lastStationsRefresh' = now'
              /\ discoveredAt' = now'
              /\ pc' = "range"
              /\ panicMsg' = panicMsg
              /\ todo' = DOMAIN stationGoodness'
    /\ UNCHANGED <<loaderVars, stations, station, audio, val, msg, sendErr,
                   callErr, updates, drawn>>

\* main, lines 239-241: the range loop takes the next station and draws
Iterate ==
    /\ pc = "range"
    /\ todo # {}
    /\ \E s \in todo, r \in Draws :
         /\ station' = s
         /\ todo' = todo \ {s}
         /\ drawn' = r
         /\ pc' = IF Sampled(r, stationGoodness[s]) THEN "capture" ELSE "range"
    /\ val' = NoVal
    /\ stations' = <<>>
    /\ UNCHANGED <<panicMsg, loaderVars, stationGoodness, lastStationsRefresh,
                   now, audio, msg, sendErr, callErr, updates, discoveredAt>>

\* variant: the range loop is left before every station was taken
EndPassEarly ==
    /\ pc = "range"
    /\ pc' = "loop"
    /\ station' = NoStation
    /\ drawn' = NoVal
    /\ val' = NoVal
    /\ sendErr' = FALSE
    /\ stations' = <<>>
    /\ UNCHANGED <<panicMsg, loaderVars, stationGoodness, lastStationsRefresh,
                   now, todo, audio, msg, callErr, updates, discoveredAt>>

\* variant: the program returns after one pass
EndPassReturn ==
    /\ pc = "range"
    /\ todo = {}
    /\ pc' = "done"
    /\ station' = NoStation
    /\ drawn' = NoVal
    /\ val' = NoVal
    /\ sendErr' = FALSE
    /\ stations' = <<>>
    /\ UNCHANGED <<panicMsg, loaderVars, stationGoodness, lastStationsRefresh,
                   now, todo, audio, msg, callErr, updates, discoveredAt>>

\* main, line 239 to line 271 and back to 215: the range loop is exhausted
EndPass ==
    /\ pc = "range"
    /\ todo = {}
    /\ pc' = "loop"
    /\ station' = NoStation
    /\ drawn' = NoVal
    /\ val' = NoVal
    /\ sendErr' = FALSE
    /\ stations' = <<>>
    /\ UNCHANGED <<panicMsg, loaderVars, stationGoodness, lastStationsRefresh,
                   now, todo, audio, msg, callErr, updates, discoveredAt>>

\* main, lines 242-245: the blocking call to rtlsdr.GetAudio
GetAudio ==
    /\ pc = "capture"
    /\ updates < MaxUpdates
    /\ \E e \in {ErrNone, MsgCapture} :
         /\ callErr' = e
         /\ \E a \in (IF e = ErrNone THEN Audios ELSE {NoAudio}) : audio' = a
         /\ IF Failed(e) THEN Panic(e)
            ELSE pc' = "score" /\ panicMsg' = panicMsg
    /\ drawn' = NoVal
    /\ UNCHANGED <<loaderVars, stationGoodness, lastStationsRefresh, now,
                   stations, todo, station, val, msg, sendErr, updates,
                   discoveredAt>>

\* main, lines 246-262: m.goodness, the update of the map, and the decision
\* to publish
Score ==
    /\ pc = "score"
    /\ \E e \in {ErrNone, MsgScoring} :
         \E v \in (IF e = ErrNone THEN Vals ELSE {NoVal}) :
           /\ callErr' = e
           /\ val' = v
           /\ IF Failed(e)
                THEN /\ Panic(e)
                     /\ UNCHANGED <<stationGoodness, msg, updates, audio,
                                    sendErr>>
                ELSE /\ stationGoodness' =
                          [stationGoodness EXCEPT ![station] = Update(@, v)]
                     /\ updates' = updates + 1
                     /\ panicMsg' = panicMsg
                     /\ sendErr' = FALSE
                     /\ IF WorthSending(v)
                          THEN /\ msg' = [Audio |-> audio, Freq |-> station,
                                          ExpectedValue |-> v]
                               /\ pc' = "publish"
                               /\ audio' = audio
                          ELSE /\ msg' = msg
                               /\ pc' = "range"
                               /\ audio' = NoAudio
    /\ UNCHANGED <<loaderVars, lastStationsRefresh, now, stations, todo,
                   station, discoveredAt, drawn>>

\* variant: a publish error panics
publishAudioFatal ==
    /\ pc = "publish"
    /\ \E failed \in BOOLEAN :
         /\ sendErr' = failed
         /\ IF failed THEN Panic("publish")
            ELSE pc' = "range" /\ panicMsg' = panicMsg
    /\ msg' = NoMsg
    /\ audio' = NoAudio
    /\ UNCHANGED <<loaderVars, stationGoodness, lastStationsRefresh,
                   now, stations, todo, station, val, callErr, updates,
                   discoveredAt, drawn>>

\* variant: a failed send is tried again by the loop
publishAudioRetry ==
    /\ pc = "publish"
    /\ \E failed \in BOOLEAN :
         /\ sendErr' = failed
         /\ IF failed THEN pc' = "publish" /\ msg' = msg /\ audio' = audio
            ELSE pc' = "range" /\ msg' = NoMsg /\ audio' = NoAudio
    /\ UNCHANGED <<panicMsg, loaderVars, stationGoodness, lastStationsRefresh,
                   now, stations, todo, station, val, callErr, updates,
                   discoveredAt, drawn>>

\* publishAudio, lines 157-167, and main, lines 264-267
publishAudio ==
    /\ pc = "publish"
    /\ \E failed \in BOOLEAN : sendErr' = failed
    /\ pc' = "range"
    /\ msg' = NoMsg
    /\ audio' = NoAudio
    /\ UNCHANGED <<panicMsg, loaderVars, stationGoodness, lastStationsRefresh,
                   now, stations, todo, station, val, callErr, updates,
                   discoveredAt, drawn>>

Next ==
    \/ Start \/ Import \/ Validate \/ Connect
    \/ LoopHead \/ GetCeilingSignals \/ TrackStations
    \/ Iterate \/ EndPass \/ GetAudio \/ Score \/ publishAudio

Spec == Init /\ [][Next]_vars

\* The runs checked for progress: the same steps, with fewer inputs (graphs
\* of at most two operations, one clip, the values 0 and 0.9, the draws 0
\* and 0.95, discoveries of at most one station) and fewer updates.
LiveInputs ==
    /\ Len(graph) <= 2
    /\ Len(stations) <= 1
    /\ audio \in {NoAudio, "clipA"}
    /\ val \in {Rat(0, 1), Rat(9, 10)}
    /\ drawn \in {Rat(0, 1), Rat(19, 20)}

LiveCapped == pc = "capture" /\ updates >= LiveMaxUpdates

LiveNext == Next /\ ~LiveCapped /\ LiveInputs'

\* the single thread of main keeps running: a step that can be taken is
\* taken (every blocking call returns)
LiveSpec == Init /\ [][LiveNext]_vars /\ WF_vars(LiveNext)

---------------------------------------------------------------------------
(* Properties *)

Half == [num |-> 1, den |-> 2]

\* C1: a step of the loop hands a message to publishAudio if and only if it
\* scored a clip and the value it got strictly exceeds 0.5.
C1_PublishIffAboveHalf ==
    [][ /\ (pc' = "publish" =>
              pc = "score" /\ 2 * val'.num > val'.den)
        /\ (pc = "score" /\ pc' # "panic" /\ 2 * val'.num > val'.den =>
              pc' = "publish")
        /\ (pc = "score" /\ 2 * val'.num <= val'.den =>
              pc' # "publish" /\ msg' = NoMsg) ]_vars

\* a value above 0.5 is about to be published after a value of exactly 0.5
\* (which left a station at 0.5*0.8+0.05 = 0.45) was not
C1_Witness ==
    /\ pc = "publish"
    /\ val = [num |-> 11, den |-> 20]
    /\ \E s \in DOMAIN stationGoodness :
         stationGoodness[s] = [num |-> 9, den |-> 20]

\* s*(v+0.3)+0.05 as one fraction in lowest terms
ExpectedScore(s, v) ==
    Norm(2 * s.num * (10 * v.num + 3 * v.den) + s.den * v.den,
         20 * s.den * v.den)

\* C2: scoring a clip of a station with score s with value v leaves the
\* station with score s*(v+0.3)+0.05, not clamped.
C2_UpdateRule ==
    [][ pc = "score" /\ pc' # "panic" =>
          stationGoodness'[station] =
            ExpectedScore(stationGoodness[station], val') ]_vars

\* the example s = 0.5, v = 0.9 gives 0.65
C2_Witness ==
    /\ pc = "publish"
    /\ val = [num |-> 9, den |-> 10]
    /\ updates = 1
    /\ stationGoodness[station] = [num |-> 13, den |-> 20]

Occurrences(q, t) == Cardinality({i \in 1..Len(q) : q[i] = t})

\* C3: a graph with an operation type outside the whitelist makes newModel
\* fail with the whitelist error, no session is opened, and every offending
\* type is printed exactly once and no other type is printed.
C3_UnsafeGraphRejected ==
    [][ pc = "validate" /\ (\E i \in 1..Len(graph) : ~opIsSafe(graph[i].type))
          => /\ pc' = "panic"
             /\ err' = ErrUnsafe
             /\ sessions' = 0
             /\ \A t \in OpTypes :
                  Occurrences(printed', t) =
                    IF ~opIsSafe(t) /\ \E i \in 1..Len(graph) : graph[i].type = t
                      THEN 1 ELSE 0 ]_vars

\* a graph with two operations of one offending type, listed once
C3_Witness ==
    /\ pc = "panic"
    /\ err = ErrUnsafe
    /\ Len(printed) = 1
    /\ \E i, j \in 1..Len(graph) :
         i # j /\ graph[i].type = printed[1] /\ graph[j].type = printed[1]
    /\ \E i \in 1..Len(graph) : opIsSafe(graph[i].type)

\* C4: a graph of whitelisted operations that lacks the input or the output
\* port fails with a missing-port error, never the whitelist error, and a
\* graph that fails the whitelist never fails with a missing-port error.
C4_MissingPortDistinct ==
    [][ pc = "validate" =>
          LET allSafe == \A i \in 1..Len(graph) : opIsSafe(graph[i].type)
              hasOut == \E i \in 1..Len(graph) : graph[i].name = "output"
              hasIn == \E i \in 1..Len(graph) :
                          graph[i].name = "input/Placeholder"
          IN  /\ (allSafe /\ ~(hasOut /\ hasIn) =>
                    /\ pc' = "panic"
                    /\ err' \in {"output OP not found", "input OP not found"}
                    /\ panicMsg' = err'
                    /\ sessions' = 0)
              /\ (~allSafe =>
                    err' \notin {"output OP not found", "input OP not found"})
        ]_vars

\* a whitelisted graph with the output port and no input port
C4_Witness ==
    /\ pc = "panic"
    /\ err = ErrNoInput
    /\ Len(graph) > 0
    /\ \A i \in 1..Len(graph) : opIsSafe(graph[i].type)
    /\ \E i \in 1..Len(graph) : graph[i].name = "output"

\* C5: a station that a discovery adds has score 0.5 right after it, and
\* as long as nothing was sampled every tracked station has score 0.5.
C5_InitialScoreHalf ==
    [][ /\ (pc = "track" =>
              \A s \in DOMAIN stationGoodness' \ DOMAIN stationGoodness :
                 stationGoodness'[s] = Half)
        /\ (updates' = 0 =>
              \A s \in DOMAIN stationGoodness' : stationGoodness'[s] = Half)
      ]_vars

\* a later discovery has just added station 2 next to a station that was
\* sampled before
C5_Witness ==
    /\ pc = "range"
    /\ stations = <<2>>
    /\ updates > 0
    /\ DOMAIN stationGoodness = {1, 2}
    /\ stationGoodness[2] = Half
    /\ stationGoodness[1] # Half

\* C6: a discovery that returns nothing while nothing is tracked stops the
\* process with the no-stations panic, and a stopped process takes no step.
C6_NoStationsFatal ==
    [][ /\ pc # "panic"
        /\ (pc = "track" /\ stations = <<>> /\ DOMAIN stationGoodness = {} =>
              /\ pc' = "panic"
              /\ panicMsg' = "No FM stations. Move the antenna?"
              /\ updates' = 0)
      ]_vars

C6_Witness ==
    /\ pc = "panic"
    /\ panicMsg = MsgNoStations
    /\ stations = <<>>
    /\ DOMAIN stationGoodness = {}
    /\ updates = 0

\* C7: when publishAudio returns an error the process does not panic, the
\* range loop goes on with the stations it has left, and the map keeps the
\* score just updated.
C7_PublishFailureRecoverable ==
    [][ pc = "publish" /\ sendErr' =>
          /\ pc' = "range"
          /\ panicMsg' = ""
          /\ todo' = todo
          /\ stationGoodness' = stationGoodness ]_vars

\* after a failed publish for one station the next station of the pass is
\* being captured, and the first keeps its updated score
C7_Witness ==
    /\ pc = "capture"
    /\ sendErr
    /\ \E s \in DOMAIN stationGoodness \ {station} :
         stationGoodness[s] = [num |-> 13, den |-> 20]

\* C8: a failed discovery, capture or scoring panics at once, leaving the
\* map as it was and handing over no message; a stopped process takes no
\* step.
C8_LoopFailuresFatal ==
    [][ /\ pc # "panic"
        /\ (pc \in {"discover", "capture", "score"} /\ callErr' # "" =>
              /\ pc' = "panic"
              /\ panicMsg' = callErr'
              /\ stationGoodness' = stationGoodness
              /\ updates' = updates
              /\ msg' = NoMsg)
      ]_vars

\* scoring failed for a station that had been sampled before: its score
\* is the one it had
C8_Witness ==
    /\ pc = "panic"
    /\ panicMsg = MsgScoring
    /\ updates = 1
    /\ stationGoodness[station] = [num |-> 13, den |-> 20]

\* C9 as stated: every discovery, whatever its outcome, is followed by the
\* recording of the timestamp.
C9_StampedAfterEveryDiscovery ==
    [][ (pc = "discover" \/ pc = "track") /\ pc' # "track" =>
          lastStationsRefresh' = now' ]_vars

\* C9, amended: every discovery that does not stop the process is followed
\* by the recording of the timestamp, whatever list it returned, and no
\* discovery starts unless more than 5 minutes have passed since the clock
\* reading that followed the previous one.
C9_StampedUnlessFatal ==
    [][ /\ (pc = "track" /\ pc' # "panic" =>
              lastStationsRefresh' = now' /\ now' >= now)
        /\ (pc' = "discover" /\ discoveredAt # ZeroTime =>
              now' - discoveredAt > 5)
        /\ (pc = "loop" /\ now' - lastStationsRefresh <= 5 =>
              pc' # "discover")
      ]_vars

\* a discovery that found nothing while a station was tracked has been stamped
C9_Witness ==
    /\ pc = "range"
    /\ stations = <<>>
    /\ DOMAIN stationGoodness # {}
    /\ discoveredAt >= 6
    /\ lastStationsRefresh = now

\* C10: no step removes a station from the map.
C10_TrackedSetGrows ==
    [][ DOMAIN stationGoodness \subseteq DOMAIN stationGoodness' ]_vars

\* station 1 is still tracked after a discovery that returned station 2 only
C10_Witness ==
    /\ pc = "range"
    /\ stations = <<2>>
    /\ updates > 0
    /\ 1 \in DOMAIN stationGoodness

Below(x, y) ==
    LET l == (x.den \div GCD(x.den, y.den)) * y.den
    IN  x.num * (l \div x.den) < y.num * (l \div y.den)

\* the sign of s*(v-0.7)+0.05, as the integer 2*sn*(10*vn-7*vd) + sd*vd
Drift(s, v) == 2 * s.num * (10 * v.num - 7 * v.den) + s.den * v.den

\* C13 as stated: the update raises the score when the value exceeds 0.7
\* and lowers it when the value is at most 0.7.
C13_RaisedIffAboveSevenTenths ==
    [][ pc = "score" /\ pc' # "panic" =>
          LET s == stationGoodness[station]
              t == stationGoodness'[station]
          IN  IF 10 * val'.num > 7 * val'.den
                THEN Below(s, t) ELSE Below(t, s) ]_vars

\* C13, amended: the update raises the score when the value exceeds 0.7;
\* when the value is at most 0.7 it lowers the score only if
\* s*(0.7-v) > 0.05, and raises it if s*(0.7-v) < 0.05 (always so for
\* v = 0.7).
C13_UpdateDirection ==
    [][ pc = "score" /\ pc' # "panic" =>
          LET s == stationGoodness[station]
              t == stationGoodness'[station]
          IN  /\ (10 * val'.num > 7 * val'.den => Below(s, t))
              /\ (10 * val'.num = 7 * val'.den => Below(s, t))
              /\ Below(t, s) = (Drift(s, val') < 0)
              /\ Below(s, t) = (Drift(s, val') > 0) ]_vars

\* a value of exactly 0.7 has raised a score of 0.5 to 0.55
C13_Witness ==
    /\ pc = "range"
    /\ val = [num |-> 7, den |-> 10]
    /\ updates = 1
    /\ stationGoodness[station] = [num |-> 11, den |-> 20]

\* C14: the score of a tracked station changes only in the step that scores
\* a clip of that same station; a discovery leaves the scores of the
\* stations already tracked as they are, and scoring one station leaves the
\* others as they are.
C14_ScoreChangedOnlyByOwnUpdate ==
    [][ \A s \in DOMAIN stationGoodness :
          s \in DOMAIN stationGoodness'
            /\ stationGoodness'[s] # stationGoodness[s]
          => pc = "score" /\ s = station /\ updates' = updates + 1 ]_vars

\* a discovery has returned station 1 again, and station 1 keeps the score
\* 0.65 it was given before
C14_Witness ==
    /\ pc = "range"
    /\ stations = <<1>>
    /\ 1 \in DOMAIN stationGoodness
    /\ stationGoodness[1] = [num |-> 13, den |-> 20]

\* C15: a message is built only in the step that scored a value above 0.5,
\* it carries the clip captured for that station, the station and the
\* value, and the call of publishAudio that takes it is made once: whether
\* the call succeeds or fails, the loop drops the message and goes on.
C15_MessageHandedOnce ==
    [][ /\ (pc = "capture" /\ pc' = "score" => audio' \in Audios)
        /\ (msg' # NoMsg /\ pc # "publish" =>
              /\ pc = "score"
              /\ pc' = "publish"
              /\ 2 * val'.num > val'.den
              /\ audio \in Audios
              /\ msg' = [Audio |-> audio, Freq |-> station,
                         ExpectedValue |-> val'])
        /\ (pc' = "publish" => pc = "score" /\ msg' # NoMsg)
        /\ (pc = "publish" => pc' = "range" /\ msg' = NoMsg)
      ]_vars

\* the send of a message with value 0.9 has failed and the message is gone
C15_Witness ==
    /\ pc = "range"
    /\ sendErr
    /\ msg = NoMsg
    /\ val = [num |-> 9, den |-> 10]
    /\ station \in DOMAIN stationGoodness

LoopPcs == {"loop", "discover", "track", "range", "capture", "score",
            "publish"}

\* a pass is about to take its first station
PassStart == pc = "range" /\ station = NoStation

\* the process has stopped on one of the fatal conditions of the loop
FatalStop ==
    /\ pc = "panic"
    /\ panicMsg \in {MsgDiscovery, MsgCapture, MsgScoring, MsgNoStations}


\* C16: once in the loop the process leaves it only by one of the fatal
\* panics, and as long as it has not panicked the loop starts another pass,
\* whatever the outcome of the publish calls.
C16_LoopNeverEnds ==
    /\ [][ (pc \in LoopPcs) =>
             (\/ pc' \in LoopPcs
              \/ (/\ pc' = "panic"
                  /\ panicMsg' \in {MsgDiscovery, MsgCapture, MsgScoring,
                                    MsgNoStations}
                  /\ (callErr' # "" \/ DOMAIN stationGoodness' = {})))
       ]_vars
    /\ (PassStart ~> (~PassStart))
    /\ ((pc \in LoopPcs /\ ~PassStart) ~> (PassStart \/ FatalStop \/ LiveCapped))

\* a new pass is starting after a pass that scored 0.9 and called publishAudio
C16_Witness ==
    /\ PassStart
    /\ updates > 0
    /\ \E s \in DOMAIN stationGoodness :
         stationGoodness[s] = [num |-> 13, den |-> 20]

\* C17: for a station that is taken the steps come in the order capture,
\* score and update, publish; the next station is drawn only when no clip
\* and no message of the previous one is left; and a discovery runs only
\* between passes, when the range loop has no station left and no station,
\* clip or message is in hand.
C17_StrictlySerial ==
    [][ /\ (pc' = "capture" => pc = "range" /\ station' \notin todo')
        /\ (pc' = "score" => pc = "capture" /\ station' = station)
        /\ (updates' # updates => pc = "score" /\ updates' = updates + 1)
        /\ (pc' = "publish" =>
              pc = "score" /\ station' = station /\ updates' = updates + 1)
        /\ (pc = "range" /\ todo' # todo => audio = NoAudio /\ msg = NoMsg)
        /\ (pc' = "discover" => pc = "loop")
        /\ (pc' = "track" => pc = "discover")
        /\ (pc' \in {"loop", "discover", "track"} =>
              /\ todo' = {}
              /\ station' = NoStation
              /\ audio' = NoAudio
              /\ msg' = NoMsg)
      ]_vars

\* the second station of a pass is being captured after the first one was
\* scored and published
C17_Witness ==
    /\ pc = "capture"
    /\ todo = {}
    /\ updates = 1
    /\ audio = NoAudio
    /\ msg = NoMsg
    /\ \E s \in DOMAIN stationGoodness \ {station} :
         stationGoodness[s] = [num |-> 13, den |-> 20]

\* C18: a session is opened only by the start-up step that checks the
\* graph, only when no session exists and every operation of the graph is
\* whitelisted and both ports are there; the loop runs only with that one
\* session and no load error; a load error stops the process.
C18_SessionOpenedOnce ==
    [][ /\ (sessions' # sessions =>
              /\ pc = "validate"
              /\ sessions = 0
              /\ sessions' = 1
              /\ \A i \in 1..Len(graph) : opIsSafe(graph[i].type)
              /\ \E i \in 1..Len(graph) : graph[i].name = "output"
              /\ \E i \in 1..Len(graph) : graph[i].name = "input/Placeholder")
        /\ (pc = "validate" /\ err' # "" => pc' = "panic")
        /\ (pc' \in {"connect", "loop", "discover", "track", "range",
                     "capture", "score", "publish"} =>
              sessions' = 1 /\ err' = "")
        /\ (pc' \in {"discover", "capture", "score"} => panicMsg' = "")
      ]_vars

\* the third clip of a run is about to be scored with the one session
C18_Witness ==
    /\ pc = "score"
    /\ updates = 2
    /\ sessions = 1
    /\ err = ErrNone

\* C19: with scoring values in [0,1] the score of every tracked station is
\* positive, at least 0.05 and at least 1/14, so some draw of [0,1) is
\* below it.
C19_ScoresStayPositive ==
    \A s \in DOMAIN stationGoodness :
       LET g == stationGoodness[s]
       IN  /\ g.num > 0
           /\ 20 * g.num >= g.den
           /\ 14 * g.num >= g.den
           /\ \E r \in Draws : r.num * g.den < g.num * r.den

\* three values of 0 took a station from 0.5 to 0.083
C19_Witness ==
    \E s \in DOMAIN stationGoodness :
       stationGoodness[s] = [num |-> 83, den |-> 1000]

\* C20: the first iteration of the loop, when the last-refresh time is still
\* the zero time and nothing is tracked, goes to the discovery; and a pass,
\* a capture, a scoring or a publish only happens after a discovery was
\* stamped and with at least one tracked station.
C20_DiscoveryBeforeSampling ==
    [][ /\ (pc = "loop"
              /\ (lastStationsRefresh = ZeroTime \/ DOMAIN stationGoodness = {})
              => pc' = "discover")
        /\ (pc' \in {"range", "capture", "score", "publish"} =>
              /\ DOMAIN stationGoodness' # {}
              /\ lastStationsRefresh' >= 0
              /\ discoveredAt' >= 0
              /\ todo' \subseteq DOMAIN stationGoodness'
              /\ (pc' # "range" => station' \in DOMAIN stationGoodness'))
      ]_vars

\* the first capture of a run
C20_Witness ==
    /\ pc = "capture"
    /\ updates = 0
    /\ station \in DOMAIN stationGoodness
    /\ lastStationsRefresh >= 0

====
